---- MODULE Spec2Model ----
(***************************************************************************)
(* Enrollment and lesson-progress engine of the LMS backend                *)
(* (app/services/course.py, class EnrollmentService), modelled over the    *)
(* two tables `enrollments` and `lesson_progress` (app/models/course.py).  *)
(***************************************************************************)
EXTENDS Integers, Sequences, FiniteSets, TLC

\* ------------------------------------------------------------------ bounds
MaxTime == 2          \* values the wall clock takes: 1..MaxTime
MaxLessons == 2       \* lessons that can be added to the course
MaxBatch == 2         \* items of one bulk enrollment request
MaxRanked == 6        \* courses, or students, of one ranking

\* ------------------------------------------------- the world of the model
NULL == 0                       \* SQL NULL of a nullable DateTime column
UNSET == "unset"                \* a string field left out of a partial update
UNSET_NUM == -1                 \* a numeric field left out of a partial update

CourseIds == {1}                \* rows of table `courses`
AllCourseIds == {1, 2}          \* ids a request can name (2 is unknown)
UserIds == {1, 2, 3}            \* rows of table `users`
AllUserIds == {1, 4}            \* ids the requests name (4 is unknown)

CourseStatus == {"draft", "published", "archived", "scheduled"}
EnrollmentTypes == {"free", "paid"}
LessonStatuses == {"not_started", "in_progress", "completed"}

VARIABLES
    courseStatus,     \* Course.status of course 1
    courseType,       \* Course.enrollment_type of course 1
    courseLessons,    \* number of Lesson rows of course 1 (ids 1..courseLessons)
    courseCreated,    \* Course.created_at of course 1
    enrollments,      \* table `enrollments`, row id = position
    lessonProgress,   \* table `lesson_progress`, row id = position
    now,              \* datetime.now(timezone.utc)
    last,             \* what the last service call was and what it returned
    pc,               \* concurrent requests: position of each request
    req               \* concurrent requests: locals of each request

vars == <<courseStatus, courseType, courseLessons, courseCreated, enrollments,
          lessonProgress, now, last, pc, req>>

Workers == {1, 2}
Idle == [op |-> "idle"]

\* ------------------------------------------------------------ helpers
Ids(table) == 1..Len(table)

\* select(Enrollment).where(course_id == c and student_id == s)
EnrollmentsOf(table, c, s) ==
    {i \in Ids(table) : table[i].course_id = c /\ table[i].student_id = s}

ProgressRowsOf(table, e, l) ==
    {i \in Ids(table) : table[i].enrollment_id = e /\ table[i].lesson_id = l}

\* Result.scalar_one_or_none(): the row, None, or MultipleResultsFound
ScalarOneOrNone(ids) ==
    IF Cardinality(ids) > 1 THEN "multiple"
    ELSE IF ids = {} THEN "none" ELSE "one"

TheOne(ids) == CHOOSE i \in ids : TRUE

Call(op, outcome, args, ret) ==
    [op |-> op, outcome |-> outcome, args |-> args, ret |-> ret]

\* ------------------------------------------------------------ Enroll
\* only published courses enrollable
EnrollableStatusesNoDraft == {"published"}
\* if course.status not in ["published", "draft"]
EnrollableStatuses == {"published", "draft"}

PaymentStatusFor(enrollment_type) ==
    IF enrollment_type = "paid" THEN "pending" ELSE "paid"

\* Enrollment(student_id, course_id, status="active", progress_percentage=0.0,
\* payment_status=...): completed_lessons and total_lessons take the column
\* default 0, enrollment_date the server default now().
NewEnrollment(c, s, t, etype, lessons) ==
    [course_id |-> c, student_id |-> s, status |-> "active",
     progress_percentage |-> 0, completed_lessons |-> 0,
     total_lessons |-> 0,
     enrollment_date |-> t, completion_date |-> NULL,
     last_accessed_at |-> NULL,
     payment_status |-> PaymentStatusFor(etype)]

\* a check that only looks for an active enrollment of the pair
EnrollCheckActiveOnly(table, c, s, cstatus) ==
    IF c \notin CourseIds THEN "NotFound"
    ELSE IF cstatus \notin {"published", "draft"} THEN "InvalidState"
    ELSE IF \E i \in EnrollmentsOf(table, c, s) : table[i].status = "active"
         THEN "Conflict"
    ELSE "ok"

\* The checks of enroll_in_course up to the existence check, in code order.
EnrollCheck(table, c, s, cstatus) ==
    IF c \notin CourseIds THEN "NotFound"
    ELSE IF cstatus \notin EnrollableStatuses THEN "InvalidState"
    ELSE IF ScalarOneOrNone(EnrollmentsOf(table, c, s)) = "multiple"
         THEN "MultipleResultsFound"
    ELSE IF ScalarOneOrNone(EnrollmentsOf(table, c, s)) = "one" THEN "Conflict"
    ELSE "ok"

\* db.add(enrollment); db.commit(): the foreign key enrollments.student_id ->
\* users.id rejects an unknown student.
EnrollInsert(s) ==
    IF s \notin UserIds THEN "IntegrityError" ELSE "ok"

EnrollOutcome(table, c, s, cstatus) ==
    IF EnrollCheck(table, c, s, cstatus) # "ok"
    THEN EnrollCheck(table, c, s, cstatus)
    ELSE EnrollInsert(s)

Enroll(c, s) ==
    LET outcome == EnrollOutcome(enrollments, c, s, courseStatus)
        row == NewEnrollment(c, s, now, courseType, courseLessons)
    IN  /\ enrollments' = IF outcome = "ok" THEN Append(enrollments, row)
                          ELSE enrollments
        /\ last' = Call("Enroll", outcome, <<c, s>>,
                        IF outcome = "ok" THEN Len(enrollments) + 1 ELSE NULL)
        /\ UNCHANGED <<courseStatus, courseType, courseCreated, courseLessons,
                       lessonProgress, now, pc, req>>

\* ------------------------------------------------------------ UpdateFields
\* EnrollmentUpdate (schemas/course.py): every field Optional; status and
\* payment_status are free strings, progress_percentage in [0, 100],
\* completed_lessons >= 0.
UpdateStatuses == {UNSET, "active", "completed", "dropped", "suspended", "on_hold"}
UpdateProgress == {UNSET_NUM, 0, 50}
UpdateCompleted == {UNSET_NUM, 0, 1}
UpdatePayment == {UNSET, "refunded"}
EnrollmentUpdate ==
    [status : UpdateStatuses, progress_percentage : UpdateProgress,
     completed_lessons : UpdateCompleted, payment_status : UpdatePayment]

\* model_dump() without exclude_unset: every payload field is written, the
\* unset ones as well
ApplyUpdateAllFields(row, upd) ==
    [row EXCEPT
       !.status = IF upd.status = UNSET THEN @ ELSE upd.status,
       !.progress_percentage =
           IF upd.progress_percentage = UNSET_NUM THEN @
           ELSE upd.progress_percentage,
       !.completed_lessons =
           IF upd.completed_lessons = UNSET_NUM THEN @
           ELSE upd.completed_lessons,
       !.payment_status = upd.payment_status]
\* for field, value in update_data.items(): setattr(enrollment, field, value)
ApplyUpdate(row, upd) ==
    [row EXCEPT
       !.status = IF upd.status = UNSET THEN @ ELSE upd.status,
       !.progress_percentage =
           IF upd.progress_percentage = UNSET_NUM THEN @
           ELSE upd.progress_percentage,
       !.completed_lessons =
           IF upd.completed_lessons = UNSET_NUM THEN @
           ELSE upd.completed_lessons,
       !.payment_status =
           IF upd.payment_status = UNSET THEN @ ELSE upd.payment_status]

\* last_accessed_at when progress is updated
TouchOnProgress(row, upd, t) ==
    IF upd.progress_percentage # UNSET_NUM \/ upd.completed_lessons # UNSET_NUM
    THEN [row EXCEPT !.last_accessed_at = t] ELSE row

\* completion_date rewritten by every update to completed
StampCompletionAlways(row, upd, t) ==
    IF upd.status = "completed" THEN [row EXCEPT !.completion_date = t] ELSE row
\* if enrollment_data.status == "completed" and not enrollment.completion_date
StampCompletion(row, upd, t) ==
    IF upd.status = "completed" /\ row.completion_date = NULL
    THEN [row EXCEPT !.completion_date = t] ELSE row

UpdatedEnrollment(row, upd, t) ==
    StampCompletion(TouchOnProgress(ApplyUpdate(row, upd), upd, t), upd, t)

UpdateFields(eid, upd) ==
    /\ enrollments' =
         IF eid \in Ids(enrollments)
         THEN [enrollments EXCEPT ![eid] = UpdatedEnrollment(@, upd, now)]
         ELSE enrollments
    /\ last' = Call("UpdateFields",
                    IF eid \in Ids(enrollments) THEN "ok" ELSE "NotFound",
                    <<eid>>, NULL)
    /\ UNCHANGED <<courseStatus, courseType, courseCreated, courseLessons,
                   lessonProgress, now, pc, req>>

\* ------------------------------------------------------------ Cancel
\* if not enrollment: raise ResourceNotFoundError("Enrollment not found")
CancelOutcome(table, eid) ==
    IF eid \in Ids(table) THEN "ok" ELSE "NotFound"

\* only an active enrollment is dropped
CancelledRowActiveOnly(row) ==
    IF row.status = "active" THEN [row EXCEPT !.status = "dropped"] ELSE row
\* update(Enrollment).where(id == enrollment_id).values(status="dropped")
CancelledRow(row) == [row EXCEPT !.status = "dropped"]

Cancel(eid) ==
    /\ enrollments' =
         IF CancelOutcome(enrollments, eid) = "ok"
         THEN [enrollments EXCEPT ![eid] = CancelledRow(enrollments[eid])]
         ELSE enrollments
    /\ last' = Call("Cancel", CancelOutcome(enrollments, eid), <<eid>>, NULL)
    /\ UNCHANGED <<courseStatus, courseType, courseCreated, courseLessons,
                   lessonProgress, now, pc, req>>

\* ------------------------------------------------------------ MarkLessonProgress
CompletionPct(status) == IF status = "completed" THEN 100 ELSE 0

\* started_at rewritten by every update
SetsStartedAtAlways(current_started_at) == TRUE
\* if not current_started_at: update_values["started_at"] = now
SetsStartedAt(current_started_at) == current_started_at = NULL

\* completed_at rewritten by every completion
SetsCompletedAtAlways(status, current_completed_at) == status = "completed"
\* if status == "completed" and not current_completed_at:
\*     update_values["completed_at"] = now
SetsCompletedAt(status, current_completed_at) ==
    status = "completed" /\ current_completed_at = NULL

\* sql_update(LessonProgress).where(id == existing_id).values(**update_values);
\* cur_started / cur_completed are the values the preceding SELECT returned.
\* A column that is not in update_values keeps the value the row has.
UpdatedProgress(row, video_completed, status, t, cur_started, cur_completed) ==
    [row EXCEPT
       !.status = status,
       !.video_completed = video_completed,
       !.completion_percentage = CompletionPct(status),
       !.last_accessed_at = t,
       !.started_at = IF SetsStartedAt(cur_started) THEN t ELSE @,
       !.completed_at = IF SetsCompletedAt(status, cur_completed) THEN t ELSE @]

\* INSERT INTO lesson_progress ... RETURNING ...
NewProgress(e, l, video_completed, status, t) ==
    [enrollment_id |-> e, lesson_id |-> l, status |-> status,
     video_completed |-> video_completed,
     completion_percentage |-> CompletionPct(status),
     started_at |-> t,
     completed_at |-> IF status = "completed" THEN t ELSE NULL,
     last_accessed_at |-> t]

\* the dict update_lesson_progress returns
ProgressDict(id, row) ==
    [id |-> id, enrollment_id |-> row.enrollment_id,
     lesson_id |-> row.lesson_id, status |-> row.status,
     video_completed |-> row.video_completed,
     completion_percentage |-> row.completion_percentage,
     completed_at |-> row.completed_at]

MarkLessonProgress(e, l, video_completed, status) ==
    LET found == ScalarOneOrNone(ProgressRowsOf(lessonProgress, e, l))
        id == IF found = "one" THEN TheOne(ProgressRowsOf(lessonProgress, e, l))
              ELSE Len(lessonProgress) + 1
        row == IF found = "one"
               THEN UpdatedProgress(lessonProgress[id], video_completed, status,
                                    now, lessonProgress[id].started_at,
                                    lessonProgress[id].completed_at)
               ELSE NewProgress(e, l, video_completed, status, now)
    IN  /\ e \in Ids(enrollments)
        /\ l \in 1..courseLessons
        /\ lessonProgress' =
             IF found = "one" THEN [lessonProgress EXCEPT ![id] = row]
             ELSE IF found = "none" THEN Append(lessonProgress, row)
             ELSE lessonProgress
        /\ last' = IF found = "multiple"
                   THEN Call("MarkLessonProgress", "MultipleResultsFound",
                             <<e, l, status>>, NULL)
                   ELSE Call("MarkLessonProgress", "ok", <<e, l, status>>,
                             ProgressDict(id, row).completed_at)
        /\ UNCHANGED <<courseStatus, courseType, courseCreated, courseLessons,
                       enrollments, now, pc, req>>

\* ------------------------------------------------------------ BulkEnroll
\* Enrollment(course_id=..., student_id=..., enrollment_type=..., ...): the
\* model class Enrollment has no attribute enrollment_type, so the declarative
\* constructor raises TypeError before a row object exists.
EnrollmentConstructor(c, s, t) == "TypeError"

\* one pass of the for loop: the outcome recorded for the item
BulkItemOutcome(table, c, s, t) ==
    IF s \notin UserIds THEN "Student not found"
    ELSE IF ScalarOneOrNone(EnrollmentsOf(table, c, s)) = "multiple"
         THEN "MultipleResultsFound"
    ELSE IF ScalarOneOrNone(EnrollmentsOf(table, c, s)) = "one"
         THEN "Student is already enrolled in this course"
    ELSE EnrollmentConstructor(c, s, t)

BulkEnrollmentResult(table, c, s, t) ==
    [student_id |-> s,
     success |-> BulkItemOutcome(table, c, s, t) = "ok",
     enrollment_id |-> IF BulkItemOutcome(table, c, s, t) = "ok"
                       THEN Len(table) + 1 ELSE NULL,
     error_message |-> BulkItemOutcome(table, c, s, t)]

\* db.add(enrollment); db.flush(): the session sees the row in later queries
BulkItemTable(table, c, s, t) ==
    IF BulkItemOutcome(table, c, s, t) = "ok"
    THEN Append(table, [course_id |-> c, student_id |-> s, status |-> "active",
                        progress_percentage |-> 0, completed_lessons |-> 0,
                        total_lessons |-> 0, enrollment_date |-> t,
                        completion_date |-> NULL, last_accessed_at |-> NULL,
                        payment_status |-> "free"])
    ELSE table

\* results kept newest first
BulkStepPrepend(acc, c, s, t) ==
    [table |-> BulkItemTable(acc.table, c, s, t),
     results |-> <<BulkEnrollmentResult(acc.table, c, s, t)>> \o acc.results,
     successful_count |-> acc.successful_count
        + (IF BulkItemOutcome(acc.table, c, s, t) = "ok" THEN 1 ELSE 0),
     failed_count |-> acc.failed_count
        + (IF BulkItemOutcome(acc.table, c, s, t) = "ok" THEN 0 ELSE 1)]
\* one pass of the for loop: every path appends one result and adds one to
\* successful_count or to failed_count
BulkStep(acc, c, s, t) ==
    [table |-> BulkItemTable(acc.table, c, s, t),
     results |-> Append(acc.results, BulkEnrollmentResult(acc.table, c, s, t)),
     successful_count |-> acc.successful_count
        + (IF BulkItemOutcome(acc.table, c, s, t) = "ok" THEN 1 ELSE 0),
     failed_count |-> acc.failed_count
        + (IF BulkItemOutcome(acc.table, c, s, t) = "ok" THEN 0 ELSE 1)]

\* results = []; successful_count = 0; failed_count = 0
BulkStart(table) ==
    [table |-> table, results |-> <<>>, successful_count |-> 0,
     failed_count |-> 0]

\* the for loop over bulk_data.enrollments, from item i on
RECURSIVE BulkLoop(_, _, _, _, _)
BulkLoop(acc, items, i, c, t) ==
    IF i > Len(items) THEN acc
    ELSE BulkLoop(BulkStep(acc, c, items[i], t), items, i + 1, c, t)

BulkEnrollmentResponse(items, acc) ==
    [total_requested |-> Len(items),
     successful_enrollments |-> acc.successful_count,
     failed_enrollments |-> acc.failed_count,
     results |-> acc.results]

BulkItems == UNION {[1..n -> AllUserIds] : n \in 1..MaxBatch}

BulkEnroll(c, items) ==
    LET done == BulkLoop(BulkStart(enrollments), items, 1, c, now)
    IN  /\ enrollments' = IF c \in CourseIds THEN done.table ELSE enrollments
        /\ last' = IF c \in CourseIds
                   THEN Call("BulkEnroll", "ok", <<c, items>>,
                             BulkEnrollmentResponse(items, done))
                   ELSE Call("BulkEnroll", "NotFound", <<c, items>>, NULL)
        /\ UNCHANGED <<courseStatus, courseType, courseCreated, courseLessons,
                       lessonProgress, now, pc, req>>

\* ------------------------------------------------------------ clock, catalog
Tick ==
    /\ now < MaxTime
    /\ now' = now + 1
    /\ UNCHANGED <<courseStatus, courseType, courseCreated, courseLessons,
                   enrollments, lessonProgress, last, pc, req>>

\* CourseService.update_course / publish_course / archive_course
SetCourseStatus(st) ==
    /\ st # courseStatus
    /\ courseStatus' = st
    /\ UNCHANGED <<courseType, courseCreated, courseLessons, enrollments,
                   lessonProgress, now, last, pc, req>>

\* LessonService.create_lesson
AddLesson ==
    /\ courseLessons < MaxLessons
    /\ courseLessons' = courseLessons + 1
    /\ UNCHANGED <<courseStatus, courseType, courseCreated, enrollments,
                   lessonProgress, now, last, pc, req>>

\* The store holds course 1 and user 1 and no enrollment yet.
InitWith(statuses, types, lessons) ==
    /\ courseStatus \in statuses
    /\ courseType \in types
    /\ courseLessons \in lessons
    /\ courseCreated = 1
    /\ enrollments = <<>>
    /\ lessonProgress = <<>>
    /\ now = 1
    /\ last = Call("none", "ok", <<>>, NULL)
    /\ pc = [w \in Workers |-> "idle"]
    /\ req = [w \in Workers |-> Idle]

\* ---------------------------------------------------------------------------
\* Spec: the five enrollment operations on a published course whose lessons
\* exist, called one at a time.
\* ---------------------------------------------------------------------------
\* the student opens the lessons in course order, so that row ids equal
\* lesson ids
LessonsInOrder ==
    {l \in 1..MaxLessons : l <= Len(lessonProgress) + 1}

ProgressUpdates ==
    {u \in EnrollmentUpdate : u.status = UNSET /\ u.payment_status = UNSET}

Init == InitWith({"published"}, {"free"}, {MaxLessons})

Next ==
    \/ \E c \in AllCourseIds, s \in AllUserIds : Enroll(c, s)
    \/ \E c \in AllCourseIds, items \in BulkItems : BulkEnroll(c, items)
    \/ \E eid \in 1..(Len(enrollments) + 1), upd \in ProgressUpdates :
          UpdateFields(eid, upd)
    \/ \E eid \in 1..(Len(enrollments) + 1) : Cancel(eid)
    \/ \E e \in Ids(enrollments), l \in LessonsInOrder, st \in LessonStatuses :
          MarkLessonProgress(e, l, TRUE, st)

Spec == Init /\ [][Next]_vars

\* ---------------------------------------------------------------------------
\* SpecProgress: lesson progress of one enrollment as the clock advances.
\* ---------------------------------------------------------------------------
InitProgress == InitWith({"published"}, {"free"}, {MaxLessons})

NextProgress ==
    \/ Enroll(1, 1)
    \/ Tick
    \/ \E e \in Ids(enrollments), l \in LessonsInOrder, st \in LessonStatuses :
          MarkLessonProgress(e, l, st = "completed", st)

SpecProgress == InitProgress /\ [][NextProgress]_vars

\* ---------------------------------------------------------------------------
\* SpecEnroll: enrollment lifecycle against a course whose status, type and
\* lessons change.
\* ---------------------------------------------------------------------------
StatusUpdates ==
    {u \in EnrollmentUpdate : u.progress_percentage = UNSET_NUM
                              /\ u.completed_lessons = UNSET_NUM
                              /\ u.payment_status = UNSET}

InitEnroll == InitWith(CourseStatus, EnrollmentTypes, {0})

NextEnroll ==
    \/ \E c \in AllCourseIds, s \in AllUserIds : Enroll(c, s)
    \/ \E eid \in 1..(Len(enrollments) + 1), upd \in StatusUpdates :
          UpdateFields(eid, upd)
    \/ \E eid \in 1..(Len(enrollments) + 1) : Cancel(eid)
    \/ \E st \in CourseStatus : SetCourseStatus(st)
    \/ AddLesson

SpecEnroll == InitEnroll /\ [][NextEnroll]_vars

\* ---------------------------------------------------------------------------
\* SpecConc: two request handlers, each with its own database session, run
\* enroll_in_course concurrently; a handler yields at every await.
\* ---------------------------------------------------------------------------
\* enroll_in_course up to the existence SELECT (lines 585-612)
EnrollBegin(w, c, s) ==
    LET outcome == EnrollCheck(enrollments, c, s, courseStatus)
    IN  /\ pc[w] = "idle"
        /\ IF outcome = "ok"
           THEN /\ pc' = [pc EXCEPT ![w] = "enroll_commit"]
                /\ req' = [req EXCEPT ![w] = [op |-> "Enroll", c |-> c, s |-> s]]
                /\ last' = last
           ELSE /\ last' = Call("Enroll", outcome, <<c, s>>, NULL)
                /\ UNCHANGED <<pc, req>>
        /\ UNCHANGED <<courseStatus, courseType, courseCreated, courseLessons,
                       enrollments, lessonProgress, now>>

\* db.add(enrollment); await db.commit() (lines 617-636): no unique constraint
\* on (course_id, student_id) stops the INSERT.
EnrollCommit(w) ==
    LET c == req[w].c
        s == req[w].s
        outcome == EnrollInsert(s)
    IN  /\ pc[w] = "enroll_commit"
        /\ enrollments' =
             IF outcome = "ok"
             THEN Append(enrollments,
                         NewEnrollment(c, s, now, courseType, courseLessons))
             ELSE enrollments
        /\ last' = Call("Enroll", outcome, <<c, s>>,
                        IF outcome = "ok" THEN Len(enrollments) + 1 ELSE NULL)
        /\ pc' = [pc EXCEPT ![w] = "idle"]
        /\ req' = [req EXCEPT ![w] = Idle]
        /\ UNCHANGED <<courseStatus, courseType, courseCreated, courseLessons,
                       lessonProgress, now>>

InitConc == InitWith(CourseStatus, EnrollmentTypes, {0})

NextConc ==
    \/ \E w \in Workers, c \in AllCourseIds, s \in AllUserIds : EnrollBegin(w, c, s)
    \/ \E w \in Workers : EnrollCommit(w)
    \/ \E c \in AllCourseIds, items \in BulkItems : BulkEnroll(c, items)
    \/ \E eid \in 1..(Len(enrollments) + 1) : Cancel(eid)

SpecConc == InitConc /\ [][NextConc]_vars

\* ---------------------------------------------------------------------------
\* SpecLifecycle: the four operations that write Enrollment.status and
\* Enrollment.completion_date, as the clock advances, against a course of any
\* status.
\* ---------------------------------------------------------------------------
InitLifecycle == InitWith(CourseStatus, {"free"}, {0})

NextLifecycle ==
    \/ \E c \in AllCourseIds, s \in AllUserIds : Enroll(c, s)
    \/ \E c \in AllCourseIds, items \in BulkItems : BulkEnroll(c, items)
    \/ \E eid \in 1..(Len(enrollments) + 1), upd \in StatusUpdates :
          UpdateFields(eid, upd)
    \/ \E eid \in 1..(Len(enrollments) + 1) : Cancel(eid)
    \/ Tick

SpecLifecycle == InitLifecycle /\ [][NextLifecycle]_vars

\* ---------------------------------------------------------------------------
\* Analytics (app/api/v1/analytics.py get_tutor_analytics and
\* EnrollmentService.get_enrollment_analytics).  Timestamps are whole days
\* counted from 2000-01-01; the calendar has 30-day months, so that day d lies
\* in month d \div 30.  Percentages rounded to one decimal are held in tenths
\* of a percent.
\* ---------------------------------------------------------------------------
\* users with role tutor: 10 created course 1; 11 has no course and belongs
\* to another organization
TutorIds == {10, 11}
CourseCreatedBy == [c \in CourseIds |-> 10]   \* Course.created_by
Periods == {"7d", "30d", "90d", "all"}

\* datetime(2000, 1, 1)
Epoch2000 == 0

\* timedelta(days=7), timedelta(days=30), timedelta(days=90)
PeriodDays(period) ==
    CASE period = "7d" -> 7
      [] period = "30d" -> 30
      [] period = "90d" -> 90

StartDate(period, t) ==
    IF period \in {"7d", "30d", "90d"} THEN t - PeriodDays(period)
    ELSE Epoch2000

\* prev_start_date = start_date - (now - start_date)
PrevStartDate(period, t) == StartDate(period, t) - (t - StartDate(period, t))

\* courses created by the actor, created inside the period unless it is "all"
CoursesInScope(actor, period, t, created) ==
    {c \in CourseIds : /\ CourseCreatedBy[c] = actor
                       /\ (period # "all" => created >= StartDate(period, t))}

\* select(Enrollment).where(Enrollment.course_id.in_(course_ids))
EnrollmentsIn(table, course_ids) ==
    {i \in Ids(table) : table[i].course_id \in course_ids}

\* count of enrollments of the courses with from <= enrollment_date < to
EnrolledBetween(table, course_ids, from, to) ==
    Cardinality({i \in EnrollmentsIn(table, course_ids) :
                   table[i].enrollment_date >= from
                   /\ table[i].enrollment_date < to})

\* count of the actor's courses created in the previous period
PrevCourses(actor, period, t, created) ==
    Cardinality({c \in CourseIds :
                   /\ CourseCreatedBy[c] = actor
                   /\ created >= PrevStartDate(period, t)
                   /\ created < StartDate(period, t)})

\* round(n / d, 0) for d > 0: to the nearest integer, ties to the even one
RoundHalfEven(n, d) ==
    LET q == n \div d
        r == n % d
    IN  IF 2 * r < d THEN q
        ELSE IF 2 * r > d THEN q + 1
        ELSE IF q % 2 = 0 THEN q ELSE q + 1

\* growth from an empty previous period reported as 100 percent
GrowthFromZeroIsFull(current, previous) ==
    IF previous > 0
    THEN RoundHalfEven((current - previous) * 1000, previous)
    ELSE IF current > 0 THEN 1000 ELSE 0
\* round(((current - previous) / previous * 100) if previous > 0 else 0.0, 1)
Growth(current, previous) ==
    IF previous > 0
    THEN RoundHalfEven((current - previous) * 1000, previous)
    ELSE 0

\* trend_days = 7 if period == "7d" else (30 if period == "30d" else 90)
TrendDays(period) ==
    IF period = "7d" THEN 7 ELSE IF period = "30d" THEN 30 ELSE 90

\* date.strftime("%m/%d")
DateStr(day) == <<((day \div 30) % 12) + 1, (day % 30) + 1>>

\* date = now - timedelta(days=trend_days - 1 - i), for i in range(trend_days)
TrendDate(period, t, i) == t - (TrendDays(period) - i)

EnrollmentTrend(table, course_ids, period, t) ==
    [labels |-> [i \in 1..TrendDays(period) |-> DateStr(TrendDate(period, t, i))],
     data |-> [i \in 1..TrendDays(period) |->
                 EnrolledBetween(table, course_ids, TrendDate(period, t, i),
                                 TrendDate(period, t, i) + 1)]]

\* the rows of the result list of
\* select(Enrollment).where(Enrollment.course_id.in_(course_ids)), in id order
RowsIn(table, course_ids) ==
    SelectSeq(table, LAMBDA r : r.course_id \in course_ids)

\* the keys of a dict filled while iterating over seq: first-seen order
FirstSeen(seq) ==
    LET firsts == SelectSeq([i \in DOMAIN seq |-> i],
                            LAMBDA i : \A j \in 1..(i - 1) : seq[j] # seq[i])
    IN  [k \in DOMAIN firsts |-> seq[firsts[k]]]

RECURSIVE SumOf(_)
SumOf(seq) == IF seq = <<>> THEN 0 ELSE Head(seq) + SumOf(Tail(seq))

\* round(sum(xs) / len(xs) if xs else 0, 1), in tenths
AvgTenths(xs) ==
    IF xs = <<>> THEN 0 ELSE RoundHalfEven(SumOf(xs) * 10, Len(xs))

\* tuple comparison a > b
KeyGreater(a, b) ==
    \E i \in DOMAIN a : a[i] > b[i] /\ \A j \in 1..(i - 1) : a[j] = b[j]

\* a descending sort that reverses the order of equal keys
SortedDescTiesReversed(items, keys) ==
    LET pos(i) == 1 + Cardinality({j \in DOMAIN items : KeyGreater(keys[j], keys[i])})
                    + Cardinality({j \in DOMAIN items : j > i /\ keys[j] = keys[i]})
    IN  [p \in DOMAIN items |-> items[CHOOSE i \in DOMAIN items : pos(i) = p]]
\* sorted(items, key=..., reverse=True), keys[i] being the key of items[i]:
\* descending, and stable (items with equal keys keep their order)
SortedDesc(items, keys) ==
    LET pos(i) == 1 + Cardinality({j \in DOMAIN items : KeyGreater(keys[j], keys[i])})
                    + Cardinality({j \in DOMAIN items : j < i /\ keys[j] = keys[i]})
    IN  [p \in DOMAIN items |-> items[CHOOSE i \in DOMAIN items : pos(i) = p]]

\* [:5]
TopFive(seq) == SubSeq(seq, 1, IF Len(seq) < 5 THEN Len(seq) ELSE 5)

\* course_enrollment_counts and course_completion_rates, one item per course
\* in first-seen order
CourseItems(rows) ==
    LET ids == FirstSeen([i \in DOMAIN rows |-> rows[i].course_id])
    IN  [k \in DOMAIN ids |->
           LET mine == SelectSeq(rows, LAMBDA r : r.course_id = ids[k])
           IN  [id |-> ids[k],
                enrollments |-> Len(mine),
                completion_rate |->
                    AvgTenths([i \in DOMAIN mine |-> mine[i].progress_percentage])]]

\* sorted(course_enrollment_counts.items(), key=lambda x: x[1], reverse=True)[:5]
TopCourses(items) ==
    TopFive(SortedDesc(items, [i \in DOMAIN items |-> <<items[i].enrollments>>]))

\* student_scores, one item per student in first-seen order
StudentItems(rows, users) ==
    LET ids == FirstSeen([i \in DOMAIN rows |-> rows[i].student_id])
        known == SelectSeq(ids, LAMBDA s : s \in users)
    IN  [k \in DOMAIN known |->
           LET mine == SelectSeq(rows, LAMBDA r : r.student_id = known[k])
           IN  [id |-> known[k],
                courses_enrolled |-> Len(mine),
                completion_rate |->
                    AvgTenths([i \in DOMAIN mine |-> mine[i].progress_percentage]),
                total_progress |->
                    AvgTenths([i \in DOMAIN mine |-> mine[i].progress_percentage])]]

\* sorted(student_scores, key=lambda x: (x["courses_enrolled"],
\* x["completion_rate"]), reverse=True)[:5]
TopStudents(items) ==
    TopFive(SortedDesc(items,
                       [i \in DOMAIN items |->
                          <<items[i].courses_enrolled, items[i].completion_rate>>]))

\* len([e for e in enrollments if e.status == status])
CountStatus(rows, status) == Len(SelectSeq(rows, LAMBDA r : r.status = status))

\* student_distribution: by status active, completed, dropped
StudentDistribution(rows) ==
    [labels |-> <<"Active", "Completed", "Dropped">>,
     data |-> <<CountStatus(rows, "active"), CountStatus(rows, "completed"),
                CountStatus(rows, "dropped")>>]

\* if not course_ids: return empty analytics
EmptyAnalytics ==
    [overview |-> [total_courses |-> 0, total_students |-> 0,
                   total_enrollments |-> 0, average_completion_rate |-> 0,
                   active_students |-> 0,
                   course_growth |-> 0, enrollment_growth |-> 0],
     enrollment_trend |-> [labels |-> <<>>, data |-> <<>>],
     student_distribution |-> [labels |-> <<>>, data |-> <<>>],
     top_courses |-> <<>>,
     top_students |-> <<>>]

TutorAnalyticsResponse(table, actor, period, t, created) ==
    LET course_ids == CoursesInScope(actor, period, t, created)
        rows == EnrollmentsIn(table, course_ids)
        list == RowsIn(table, course_ids)
    IN  IF course_ids = {} THEN EmptyAnalytics
        ELSE [overview |->
                [total_courses |-> Cardinality(course_ids),
                 total_students |->
                     Cardinality({table[i].student_id : i \in rows}),
                 total_enrollments |-> Cardinality(rows),
                 average_completion_rate |->
                     AvgTenths([i \in DOMAIN list |-> list[i].progress_percentage]),
                 active_students |->
                     Cardinality({table[i].student_id :
                                    i \in {j \in rows :
                                             table[j].enrollment_date >= t - 30}}),
                 course_growth |->
                     Growth(Cardinality(course_ids),
                            PrevCourses(actor, period, t, created)),
                 enrollment_growth |->
                     Growth(Cardinality(rows),
                            EnrolledBetween(table, course_ids,
                                            PrevStartDate(period, t),
                                            StartDate(period, t)))],
              enrollment_trend |-> EnrollmentTrend(table, course_ids, period, t),
              student_distribution |-> StudentDistribution(list),
              top_courses |-> TopCourses(CourseItems(list)),
              top_students |-> TopStudents(StudentItems(list, UserIds))]

\* a read that stamps the rows it has read
TutorAnalyticsTouching(actor, period) ==
    /\ last' = Call("TutorAnalytics", "ok", <<actor, period>>,
                    TutorAnalyticsResponse(enrollments, actor, period, now,
                                           courseCreated))
    /\ enrollments' = [i \in DOMAIN enrollments |->
                         [enrollments[i] EXCEPT !.last_accessed_at = now]]
    /\ UNCHANGED <<courseStatus, courseType, courseCreated, courseLessons,
                   lessonProgress, now, pc, req>>
\* GET /tutor: 403 unless the caller's role is tutor, instructor or
\* organization_admin; then SELECTs only
TutorAnalytics(actor, period) ==
    /\ last' = IF actor \in TutorIds
               THEN Call("TutorAnalytics", "ok", <<actor, period>>,
                         TutorAnalyticsResponse(enrollments, actor, period, now,
                                                courseCreated))
               ELSE Call("TutorAnalytics", "Forbidden", <<actor, period>>, NULL)
    /\ UNCHANGED <<courseStatus, courseType, courseCreated, courseLessons,
                   enrollments, lessonProgress, now, pc, req>>

\* enrollments of the course in the last 12 months, grouped by month
EnrollmentsByMonth(table, c, t, month) ==
    Cardinality({i \in Ids(table) : /\ table[i].course_id = c
                                    /\ table[i].enrollment_date >= t - 360
                                    /\ table[i].enrollment_date \div 30 = month})

\* datetime.now().strftime('%Y-%m')
CurrentMonth(t) == t \div 30
\* (datetime.now().replace(day=1) - timedelta(days=1)).strftime('%Y-%m')
PreviousMonth(t) == ((t \div 30) * 30 - 1) \div 30

\* enrollment_growth of get_enrollment_analytics, an unrounded quotient
CourseGrowth(current, previous) ==
    IF previous > 0
    THEN [num |-> (current - previous) * 100, den |-> previous]
    ELSE [num |-> 0, den |-> 1]

EnrollmentTrends(table, c, t) ==
    [current_month_enrollments |->
         EnrollmentsByMonth(table, c, t, CurrentMonth(t)),
     previous_month_enrollments |->
         EnrollmentsByMonth(table, c, t, PreviousMonth(t)),
     growth_percentage |->
         CourseGrowth(EnrollmentsByMonth(table, c, t, CurrentMonth(t)),
                      EnrollmentsByMonth(table, c, t, PreviousMonth(t)))]

\* enrollments_by_status.get(status, 0)
EnrollmentsByStatus(table, c, status) ==
    CountStatus(RowsIn(table, {c}), status)

\* round((completed_enrollments / total_enrollments * 100)
\*       if total_enrollments > 0 else 0, 2), in hundredths
CompletionRate(completed, total) ==
    IF total > 0 THEN RoundHalfEven(completed * 10000, total) ELSE 0

\* round(float(avg(progress_percentage) or 0), 2), in hundredths
AverageProgress(rows) ==
    IF rows = <<>> THEN 0
    ELSE RoundHalfEven(SumOf([i \in DOMAIN rows |-> rows[i].progress_percentage])
                         * 100, Len(rows))

\* avg(completion_date - enrollment_date) in days over the rows with a
\* completion_date; round(avg, 2) if avg > 0 else None.  <<>> is None, <<v>>
\* the value v in hundredths.
AverageCompletionTimeDays(rows) ==
    LET done == SelectSeq(rows, LAMBDA r : r.completion_date # NULL)
        total == SumOf([i \in DOMAIN done |->
                          done[i].completion_date - done[i].enrollment_date])
    IN  IF done # <<>> /\ total > 0
        THEN <<RoundHalfEven(total * 100, Len(done))>>
        ELSE <<>>

CourseAnalyticsResponse(table, c, t) ==
    [total_enrollments |-> Cardinality(EnrollmentsIn(table, {c})),
     active_enrollments |-> EnrollmentsByStatus(table, c, "active"),
     completed_enrollments |-> EnrollmentsByStatus(table, c, "completed"),
     dropped_enrollments |-> EnrollmentsByStatus(table, c, "dropped"),
     completion_rate |->
         CompletionRate(EnrollmentsByStatus(table, c, "completed"),
                        Cardinality(EnrollmentsIn(table, {c}))),
     average_progress |-> AverageProgress(RowsIn(table, {c})),
     average_completion_time_days |->
         AverageCompletionTimeDays(RowsIn(table, {c})),
     enrollment_trends |-> EnrollmentTrends(table, c, t)]

CourseAnalytics(c) ==
    /\ last' = IF c \in CourseIds
               THEN Call("CourseAnalytics", "ok", <<c>>,
                         CourseAnalyticsResponse(enrollments, c, now))
               ELSE Call("CourseAnalytics", "NotFound", <<c>>, NULL)
    /\ UNCHANGED <<courseStatus, courseType, courseCreated, courseLessons,
                   enrollments, lessonProgress, now, pc, req>>

\* ---------------------------------------------------------------------------
\* SpecAnalytics: the two analytics reads against every store of up to three
\* enrollments of course 1, made by Enroll on earlier days.
\* ---------------------------------------------------------------------------
AnalyticsNow == {1000, 1020}
CourseAges == {5, 50, 120}              \* days since the course was created
EnrollmentAges == {0, 3, 10, 40, 70, 100}   \* days since an enrollment was made

\* students 1, 2, 3 enrolled in this order on the days given
EnrolledOn(days) ==
    [i \in DOMAIN days |-> NewEnrollment(1, i, days[i], "free", 0)]

InitAnalytics ==
    /\ courseStatus = "published"
    /\ courseType = "free"
    /\ courseLessons = 0
    /\ lessonProgress = <<>>
    /\ now \in AnalyticsNow
    /\ courseCreated \in {now - a : a \in CourseAges}
    /\ \E n \in 0..Cardinality(UserIds) :
          \E ages \in [1..n -> EnrollmentAges] :
             /\ \A i \in 1..n : now - ages[i] >= courseCreated
             /\ \A i, j \in 1..n : i < j => ages[i] >= ages[j]
             /\ enrollments = EnrolledOn([i \in 1..n |-> now - ages[i]])
    /\ last = Call("none", "ok", <<>>, NULL)
    /\ pc = [w \in Workers |-> "idle"]
    /\ req = [w \in Workers |-> Idle]

NextAnalytics ==
    \/ \E actor \in TutorIds, period \in Periods : TutorAnalytics(actor, period)
    \/ \E c \in AllCourseIds : CourseAnalytics(c)

SpecAnalytics == InitAnalytics /\ [][NextAnalytics]_vars

\* ---------------------------------------------------------------------------
\* SpecOverview: the analytics reads against the stores that Enroll,
\* UpdateFields and Cancel build for the three students of course 1.
\* ---------------------------------------------------------------------------
\* a progress report, a completion, a suspension
OverviewUpdates ==
    {[status |-> UNSET, progress_percentage |-> 50,
      completed_lessons |-> UNSET_NUM, payment_status |-> UNSET],
     [status |-> "completed", progress_percentage |-> 100,
      completed_lessons |-> UNSET_NUM, payment_status |-> UNSET],
     [status |-> "suspended", progress_percentage |-> UNSET_NUM,
      completed_lessons |-> UNSET_NUM, payment_status |-> UNSET]}

OverviewPeriods == {"30d", "all"}

InitOverview == InitWith({"published"}, {"free"}, {0})

NextOverview ==
    \/ \E s \in UserIds : s = Len(enrollments) + 1 /\ Enroll(1, s)
    \/ \E eid \in Ids(enrollments), upd \in OverviewUpdates :
          UpdateFields(eid, upd)
    \/ \E eid \in Ids(enrollments) : Cancel(eid)
    \/ \E actor \in TutorIds, period \in OverviewPeriods :
          TutorAnalytics(actor, period)
    \/ \E c \in AllCourseIds : CourseAnalytics(c)

SpecOverview == InitOverview /\ [][NextOverview]_vars

\* ---------------------------------------------------------------------------
\* SpecReads: the analytics reads between the writes of one student's
\* enrollment and lesson progress.
\* ---------------------------------------------------------------------------
\* the two tutors and a student (user 1)
ReadActors == TutorIds \cup {1}

InitReads == InitWith({"published"}, {"free"}, {MaxLessons})

NextReads ==
    \/ Enroll(1, 1)
    \/ \E e \in Ids(enrollments), l \in LessonsInOrder, st \in LessonStatuses :
          MarkLessonProgress(e, l, st = "completed", st)
    \/ \E eid \in Ids(enrollments) : Cancel(eid)
    \/ \E actor \in ReadActors : TutorAnalytics(actor, "7d")
    \/ \E c \in AllCourseIds : CourseAnalytics(c)

SpecReads == InitReads /\ [][NextReads]_vars

\* ---------------------------------------------------------------------------
\* SpecRank: the two rankings of get_tutor_analytics applied to enrollment
\* lists of up to MaxRanked courses, or students, with one or two enrollments
\* each.
\* ---------------------------------------------------------------------------
RECURSIVE Flatten(_)
Flatten(seqs) == IF seqs = <<>> THEN <<>> ELSE Head(seqs) \o Flatten(Tail(seqs))

\* the k-th course seen is course n + 1 - k and has counts[k] enrollments
RowsByCourse(counts) ==
    Flatten([k \in DOMAIN counts |->
               [j \in 1..counts[k] |->
                  NewEnrollment(Len(counts) + 1 - k, j, 1, "free", 0)]])

\* the k-th student seen is student n + 1 - k, enrolled in profiles[k][1]
\* courses with progress profiles[k][2] in each
RowsByStudent(profiles) ==
    Flatten([k \in DOMAIN profiles |->
               [j \in 1..profiles[k][1] |->
                  [NewEnrollment(j, Len(profiles) + 1 - k, 1, "free", 0)
                     EXCEPT !.progress_percentage = profiles[k][2]]]])

CourseCounts == UNION {[1..n -> {1, 2}] : n \in 0..MaxRanked}
StudentProfiles == UNION {[1..n -> {1, 2} \X {0, 50}] : n \in 0..MaxRanked}

\* top_courses over the enrollments of the actor's courses
RankCourses ==
    /\ last' = Call("TopCourses", "ok", <<>>,
                    TopCourses(CourseItems(enrollments)))
    /\ UNCHANGED <<courseStatus, courseType, courseCreated, courseLessons,
                   enrollments, lessonProgress, now, pc, req>>

\* top_students over the enrollments of the actor's courses
RankStudents ==
    /\ last' = Call("TopStudents", "ok", <<>>,
                    TopStudents(StudentItems(enrollments, 1..MaxRanked)))
    /\ UNCHANGED <<courseStatus, courseType, courseCreated, courseLessons,
                   enrollments, lessonProgress, now, pc, req>>

\* the actor has up to MaxRanked courses and there are MaxRanked students
InitRank ==
    /\ courseStatus = "published"
    /\ courseType = "free"
    /\ courseLessons = 0
    /\ courseCreated = 1
    /\ lessonProgress = <<>>
    /\ now = 1
    /\ enrollments \in {RowsByCourse(counts) : counts \in CourseCounts}
                         \cup {RowsByStudent(profiles) : profiles \in StudentProfiles}
    /\ last = Call("none", "ok", <<>>, NULL)
    /\ pc = [w \in Workers |-> "idle"]
    /\ req = [w \in Workers |-> Idle]

NextRank == RankCourses \/ RankStudents

SpecRank == InitRank /\ [][NextRank]_vars

\* ---------------------------------------------------------------------------
\* SpecConcProgress: two request handlers, each with its own database
\* session, run update_lesson_progress concurrently for the lesson of one
\* enrollment; a handler yields at every await.
\* ---------------------------------------------------------------------------
\* the existence SELECT and now = datetime.now() (lines 903-913)
MarkCheck(w, e, l, video_completed, status) ==
    LET found == ScalarOneOrNone(ProgressRowsOf(lessonProgress, e, l))
    IN  /\ pc[w] = "idle"
        /\ e \in Ids(enrollments)
        /\ l \in 1..courseLessons
        /\ IF found = "multiple"
           THEN /\ last' = Call("MarkLessonProgress", "MultipleResultsFound",
                                <<e, l, status>>, NULL)
                /\ UNCHANGED <<pc, req>>
           ELSE /\ pc' = [pc EXCEPT ![w] = IF found = "one" THEN "mark_fetch"
                                           ELSE "mark_insert"]
                /\ req' = [req EXCEPT ![w] =
                             [op |-> "MarkLessonProgress", e |-> e, l |-> l,
                              video_completed |-> video_completed,
                              status |-> status, t |-> now,
                              id |-> IF found = "one"
                                     THEN TheOne(ProgressRowsOf(lessonProgress, e, l))
                                     ELSE NULL,
                              current_started_at |-> NULL,
                              current_completed_at |-> NULL]]
                /\ last' = last
        /\ UNCHANGED <<courseStatus, courseType, courseCreated, courseLessons,
                       enrollments, lessonProgress, now>>

\* the SELECT of started_at and completed_at (lines 917-925)
MarkFetch(w) ==
    /\ pc[w] = "mark_fetch"
    /\ req' = [req EXCEPT
                 ![w].current_started_at = lessonProgress[req[w].id].started_at,
                 ![w].current_completed_at = lessonProgress[req[w].id].completed_at]
    /\ pc' = [pc EXCEPT ![w] = "mark_update"]
    /\ UNCHANGED <<courseStatus, courseType, courseCreated, courseLessons,
                   enrollments, lessonProgress, now, last>>

\* the UPDATE and its commit (lines 927-950)
MarkUpdate(w) ==
    LET r == req[w]
        row == UpdatedProgress(lessonProgress[r.id], r.video_completed, r.status,
                               r.t, r.current_started_at, r.current_completed_at)
    IN  /\ pc[w] = "mark_update"
        /\ lessonProgress' = [lessonProgress EXCEPT ![r.id] = row]
        /\ last' = Call("MarkLessonProgress", "ok", <<r.e, r.l, r.status>>,
                        ProgressDict(r.id, row).completed_at)
        /\ pc' = [pc EXCEPT ![w] = "idle"]
        /\ req' = [req EXCEPT ![w] = Idle]
        /\ UNCHANGED <<courseStatus, courseType, courseCreated, courseLessons,
                       enrollments, now>>

\* the INSERT and its commit (lines 975-1003): no unique constraint on
\* (enrollment_id, lesson_id) stops it.
MarkInsert(w) ==
    LET r == req[w]
        row == NewProgress(r.e, r.l, r.video_completed, r.status, r.t)
    IN  /\ pc[w] = "mark_insert"
        /\ lessonProgress' = Append(lessonProgress, row)
        /\ last' = Call("MarkLessonProgress", "ok", <<r.e, r.l, r.status>>,
                        ProgressDict(Len(lessonProgress) + 1, row).completed_at)
        /\ pc' = [pc EXCEPT ![w] = "idle"]
        /\ req' = [req EXCEPT ![w] = Idle]
        /\ UNCHANGED <<courseStatus, courseType, courseCreated, courseLessons,
                       enrollments, now>>

InitConcProgress == InitWith({"published"}, {"free"}, {1})

NextConcProgress ==
    \/ Enroll(1, 1)
    \/ Tick
    \/ \E w \in Workers, st \in {"in_progress", "completed"} :
          MarkCheck(w, 1, 1, st = "completed", st)
    \/ \E w \in Workers : MarkFetch(w)
    \/ \E w \in Workers : MarkUpdate(w)
    \/ \E w \in Workers : MarkInsert(w)

SpecConcProgress == InitConcProgress /\ [][NextConcProgress]_vars

\* ---------------------------------------------------------------------------
\* SpecUpdate: partial updates of the first enrollment, and of an id that
\* does not exist, with every combination of supplied fields, next to a
\* second enrollment that no update names.
\* ---------------------------------------------------------------------------
SparseUpdates ==
    {u \in EnrollmentUpdate : /\ u.status \in {UNSET, "completed", "suspended"}
                              /\ u.progress_percentage \in {UNSET_NUM, 50}
                              /\ u.completed_lessons \in {UNSET_NUM, 1}}

InitUpdate == InitWith({"published"}, {"free"}, {0})

NextUpdate ==
    \/ \E s \in {1, 2} : s = Len(enrollments) + 1 /\ Enroll(1, s)
    \/ \E eid \in {1, Len(enrollments) + 1}, upd \in SparseUpdates :
          UpdateFields(eid, upd)
    \/ Tick

SpecUpdate == InitUpdate /\ [][NextUpdate]_vars

\* ===========================================================================
\* Properties
\* ===========================================================================
CompletedRows(e) ==
    {j \in Ids(lessonProgress) : lessonProgress[j].enrollment_id = e
                                 /\ lessonProgress[j].status = "completed"}

\* C1: every enrollment has progress_percentage = 100 * completed_lesson_count
\* / total_lesson_count when total_lesson_count > 0, and progress_percentage = 0
\* when total_lesson_count = 0, in every state the five operations reach.
C1_ProgressMatchesCounts ==
    \A i \in Ids(enrollments) :
        IF enrollments[i].total_lessons > 0
        THEN enrollments[i].progress_percentage * enrollments[i].total_lessons
             = 100 * enrollments[i].completed_lessons
        ELSE enrollments[i].progress_percentage = 0

\* C2: with no MarkLessonProgress call in progress, an enrollment's
\* completed_lesson_count is the number of its LessonProgress rows whose
\* status is completed.
C2_CompletedCountRecomputed ==
    \A i \in Ids(enrollments) :
        enrollments[i].completed_lessons = Cardinality(CompletedRows(i))

\* C3: under any interleaving of concurrent Enroll calls for one
\* (course_id, student_id), at most one Enrollment row of the pair exists.
C3_AtMostOneRowPerPair ==
    \A c \in AllCourseIds, s \in AllUserIds :
        Cardinality(EnrollmentsOf(enrollments, c, s)) <= 1

\* C4 as claimed: an Enroll for a pair that already has a row, in any status,
\* fails with Conflict and changes no row.
C4_ExistingPairConflict ==
    [][\A c \in AllCourseIds, s \in AllUserIds :
          (EnrollmentsOf(enrollments, c, s) # {} /\ Enroll(c, s))
          => (last'.outcome = "Conflict" /\ enrollments' = enrollments)]_vars

\* C4 as amended: an Enroll for a pair that already has a row, in any status,
\* fails - with Conflict when the course is published or draft, with
\* InvalidState when it is archived or scheduled - creates no row and leaves
\* the existing row unchanged, so exactly one row of the pair exists afterward.
C4_ExistingPairRejected ==
    [][\A c \in AllCourseIds, s \in AllUserIds :
          (EnrollmentsOf(enrollments, c, s) # {} /\ Enroll(c, s))
          => /\ last'.outcome = IF courseStatus \in {"published", "draft"}
                                THEN "Conflict" ELSE "InvalidState"
             /\ enrollments' = enrollments
             /\ Cardinality(EnrollmentsOf(enrollments', c, s)) = 1]_vars

\* C4 witness: an Enroll after Cancel was rejected with Conflict and the
\* dropped row is still the only one.
C4_Witness ==
    /\ last.op = "Enroll" /\ last.outcome = "Conflict"
    /\ Len(enrollments) = 1
    /\ enrollments[1].status = "dropped"
    /\ last.args = <<enrollments[1].course_id, enrollments[1].student_id>>

\* C5: an Enroll that names an unknown course or an unknown student fails with
\* NotFound, and no Enrollment row names an unknown course or student.
C5_UnknownIsNotFound ==
    /\ (last.op = "Enroll"
        /\ (last.args[1] \notin CourseIds \/ last.args[2] \notin UserIds))
       => last.outcome = "NotFound"
    /\ \A i \in Ids(enrollments) :
          enrollments[i].course_id \in CourseIds
          /\ enrollments[i].student_id \in UserIds

\* C6: an Enroll into an existing course fails with InvalidState and creates
\* no row when the course is archived or scheduled, and does not fail with
\* InvalidState when the course is published or draft.
C6_StatusGate ==
    [][\A c \in CourseIds, s \in AllUserIds :
          Enroll(c, s)
          => /\ courseStatus \in {"archived", "scheduled"}
                => (last'.outcome = "InvalidState" /\ enrollments' = enrollments)
             /\ courseStatus \in {"published", "draft"}
                => last'.outcome # "InvalidState"]_vars

\* C6 witness: a student enrolled in a draft course, and a later Enroll into
\* the course, then archived or scheduled, was rejected with InvalidState.
C6_Witness ==
    /\ last.op = "Enroll" /\ last.outcome = "InvalidState"
    /\ courseStatus \in {"archived", "scheduled"}
    /\ Len(enrollments) = 1

\* C7: a successful Enroll creates a row with status active, progress 0 and
\* total_lesson_count equal to the course's number of lessons at that moment.
C7_EnrollSnapshotsLessons ==
    [][\A c \in AllCourseIds, s \in AllUserIds :
          (Enroll(c, s) /\ last'.outcome = "ok")
          => /\ Len(enrollments') = Len(enrollments) + 1
             /\ enrollments'[Len(enrollments')].status = "active"
             /\ enrollments'[Len(enrollments')].progress_percentage = 0
             /\ enrollments'[Len(enrollments')].total_lessons = courseLessons]_vars

\* C8: every LessonProgress row has completed_at set if and only if its
\* status is completed.
C8_CompletedAtIffCompleted ==
    \A j \in Ids(lessonProgress) :
        (lessonProgress[j].completed_at # NULL)
        <=> (lessonProgress[j].status = "completed")

\* C9: marking a lesson complete again, right after it was marked complete,
\* leaves one row for the lesson, leaves its completed_at as the first call
\* set it, and returns that completed_at.
C9_CompletionIdempotent ==
    [][\A e \in Ids(enrollments), l \in 1..MaxLessons, vc \in BOOLEAN :
          \A j \in ProgressRowsOf(lessonProgress, e, l) :
             (lessonProgress[j].status = "completed"
              /\ MarkLessonProgress(e, l, vc, "completed"))
             => /\ ProgressRowsOf(lessonProgress', e, l) = {j}
                /\ lessonProgress'[j].completed_at = lessonProgress[j].completed_at
                /\ lessonProgress'[j].completed_at # NULL
                /\ last'.outcome = "ok"
                /\ last'.ret = lessonProgress[j].completed_at]_vars

\* C9 witness: a lesson completed at one time was marked complete again at a
\* later time, and the call returned the first completion time.
C9_Witness ==
    \E j \in Ids(lessonProgress) :
        /\ lessonProgress[j].status = "completed"
        /\ lessonProgress[j].completed_at # NULL
        /\ lessonProgress[j].completed_at < lessonProgress[j].last_accessed_at
        /\ lessonProgress[j].last_accessed_at = now
        /\ last = Call("MarkLessonProgress", "ok",
                       <<lessonProgress[j].enrollment_id,
                         lessonProgress[j].lesson_id, "completed">>,
                       lessonProgress[j].completed_at)

\* C10: a MarkLessonProgress call sets started_at of a row it creates, never
\* changes a started_at that is set, and sets last_accessed_at of the row it
\* touches to the time of the call; no step changes a started_at that is set.
C10_StartedAtSetOnce ==
    [][/\ \A j \in Ids(lessonProgress) :
             lessonProgress[j].started_at # NULL
             => (j \in Ids(lessonProgress')
                 /\ lessonProgress'[j].started_at = lessonProgress[j].started_at)
       /\ \A e \in Ids(enrollments), l \in 1..MaxLessons,
             vc \in BOOLEAN, st \in LessonStatuses :
             MarkLessonProgress(e, l, vc, st)
             => \A j \in ProgressRowsOf(lessonProgress', e, l) :
                   /\ lessonProgress'[j].started_at # NULL
                   /\ lessonProgress'[j].last_accessed_at = now
                   /\ j \notin Ids(lessonProgress)
                      => lessonProgress'[j].started_at = now]_vars

\* C10 witness: a row first touched at one time was touched again later, in
\* another status, and kept its started_at.
C10_Witness ==
    \E j \in Ids(lessonProgress) :
        /\ lessonProgress[j].started_at # NULL
        /\ lessonProgress[j].started_at < lessonProgress[j].last_accessed_at
        /\ lessonProgress[j].status = "in_progress"
        /\ last.op = "MarkLessonProgress"
        /\ last.args = <<lessonProgress[j].enrollment_id,
                         lessonProgress[j].lesson_id, "in_progress">>

\* C11: Cancel on an existing enrollment returns without error and leaves that
\* enrollment with status dropped whatever its status was before (so a second
\* Cancel changes nothing), no other field or row being touched; Cancel on an
\* unknown id fails with NotFound and changes no enrollment.
C11_CancelIdempotent ==
    [][\A eid \in 1..(Len(enrollments) + 1) :
         Cancel(eid) =>
           IF eid \in Ids(enrollments)
           THEN /\ last'.outcome = "ok"
                /\ enrollments'[eid].status = "dropped"
                /\ enrollments' = [enrollments EXCEPT ![eid].status = "dropped"]
                /\ (enrollments[eid].status = "dropped"
                       => enrollments' = enrollments)
           ELSE /\ last'.outcome = "NotFound"
                /\ enrollments' = enrollments]_vars

\* a Cancel has returned on an enrollment that had been completed before
C11_Witness ==
    /\ last.op = "Cancel"
    /\ last.outcome = "ok"
    /\ enrollments[last.args[1]].status = "dropped"
    /\ enrollments[last.args[1]].completion_date # NULL

\* C12: in every state that Enroll, BulkEnroll, UpdateFields and Cancel reach,
\* an enrollment whose status is completed has completion_date set; and an
\* UpdateFields on an existing enrollment sets completion_date to now exactly
\* when the update's status is completed and completion_date was unset, and
\* leaves completion_date as it was otherwise.
C12_CompletedHasDate ==
    [][/\ \A i \in Ids(enrollments') :
             enrollments'[i].status = "completed"
               => enrollments'[i].completion_date # NULL
       /\ \A eid \in Ids(enrollments), upd \in StatusUpdates :
             UpdateFields(eid, upd) =>
               enrollments'[eid].completion_date =
                 IF upd.status = "completed"
                    /\ enrollments[eid].completion_date = NULL
                 THEN now
                 ELSE enrollments[eid].completion_date]_vars

\* UpdateFields has returned on an enrollment that is completed and carries
\* the completion_date stamped at an earlier time
C12_Witness ==
    /\ last.op = "UpdateFields"
    /\ last.outcome = "ok"
    /\ enrollments[last.args[1]].status = "completed"
    /\ enrollments[last.args[1]].completion_date # NULL
    /\ enrollments[last.args[1]].completion_date < now

\* C13: a BulkEnroll of N items naming distinct students, none of them
\* enrolled in the course, in which exactly the item at position k names a
\* nonexistent student, returns with total_requested = N and
\* failed_enrollments = 1, the failed result being the one at position k, and
\* persists exactly N - 1 new enrollments.
C13_BulkIsolatesFailure ==
    [][\A c \in CourseIds, items \in BulkItems, k \in 1..MaxBatch :
         (/\ BulkEnroll(c, items)
          /\ k \in DOMAIN items
          /\ \A i, j \in DOMAIN items : i # j => items[i] # items[j]
          /\ \A i \in DOMAIN items : EnrollmentsOf(enrollments, c, items[i]) = {}
          /\ \A i \in DOMAIN items : (items[i] \notin UserIds) <=> (i = k))
         => /\ last'.outcome = "ok"
            /\ last'.ret.total_requested = Len(items)
            /\ last'.ret.failed_enrollments = 1
            /\ \A i \in DOMAIN items : last'.ret.results[i].success <=> (i # k)
            /\ Len(enrollments') = Len(enrollments) + Len(items) - 1]_vars

\* C14: every BulkEnroll call that returns reports one result per input item,
\* in input order (results[i].student_id = items[i].student_id),
\* total_requested = the number of input items, successful_enrollments +
\* failed_enrollments = total_requested, and successful_enrollments = the
\* number of results marked success.
C14_BulkResultShape ==
    (last.op = "BulkEnroll" /\ last.outcome = "ok") =>
        /\ Len(last.ret.results) = Len(last.args[2])
        /\ \A i \in DOMAIN last.args[2] :
              last.ret.results[i].student_id = last.args[2][i]
        /\ last.ret.total_requested = Len(last.args[2])
        /\ last.ret.successful_enrollments + last.ret.failed_enrollments
             = last.ret.total_requested
        /\ last.ret.successful_enrollments
             = Cardinality({i \in DOMAIN last.ret.results :
                              last.ret.results[i].success})

\* a BulkEnroll of two items naming different students has returned
C14_Witness ==
    /\ last.op = "BulkEnroll"
    /\ last.outcome = "ok"
    /\ Len(last.args[2]) = MaxBatch
    /\ \E i, j \in DOMAIN last.args[2] : last.args[2][i] # last.args[2][j]
    /\ \E i, j \in DOMAIN last.ret.results :
          last.ret.results[i].error_message # last.ret.results[j].error_message

\* C15: a BulkEnroll item succeeds if and only if Enroll(course, student)
\* issued at that point would succeed (stated for the first item, whose point
\* is the state before the call), and a row it creates is active with
\* progress_percentage 0.
C15_BulkItemAsEnroll ==
    [][\A c \in CourseIds, items \in BulkItems :
         BulkEnroll(c, items) =>
           /\ last'.ret.results[1].success
                <=> (EnrollOutcome(enrollments, c, items[1], courseStatus) = "ok")
           /\ \A i \in Ids(enrollments') \ Ids(enrollments) :
                 /\ enrollments'[i].status = "active"
                 /\ enrollments'[i].progress_percentage = 0]_vars

\* the courses an actor's analytics are about: all courses of the actor
ActorCourses(actor) == {c \in CourseIds : CourseCreatedBy[c] = actor}

C18_GrowthOverWindows ==
    (/\ last.op = "TutorAnalytics"
     /\ last.args[2] \in {"7d", "30d", "90d"}
     /\ EnrolledBetween(enrollments, ActorCourses(last.args[1]),
                        now - 2 * PeriodDays(last.args[2]),
                        now - PeriodDays(last.args[2])) > 0)
    => last.ret.overview.enrollment_growth =
         RoundHalfEven(
           (EnrolledBetween(enrollments, ActorCourses(last.args[1]),
                            now - PeriodDays(last.args[2]), now)
            - EnrolledBetween(enrollments, ActorCourses(last.args[1]),
                              now - 2 * PeriodDays(last.args[2]),
                              now - PeriodDays(last.args[2]))) * 1000,
           EnrolledBetween(enrollments, ActorCourses(last.args[1]),
                           now - 2 * PeriodDays(last.args[2]),
                           now - PeriodDays(last.args[2])))

\* C19: the enrollment trend of a 7d request has exactly 7 buckets, one per
\* calendar day of the 7 days ending today in chronological order, labels and
\* counts aligned, zero-count days included, in every store state, also when
\* the actor has no course or no enrollment in scope.
C19_SevenDailyBuckets ==
    (last.op = "TutorAnalytics" /\ last.args[2] = "7d") =>
        /\ Len(last.ret.enrollment_trend.labels) = 7
        /\ Len(last.ret.enrollment_trend.data) = 7
        /\ \A i \in 1..7 :
              /\ last.ret.enrollment_trend.labels[i] = DateStr(now - (7 - i))
              /\ last.ret.enrollment_trend.data[i] =
                    EnrolledBetween(enrollments, ActorCourses(last.args[1]),
                                    now - (7 - i), now - (7 - i) + 1)

\* C20: the trend of an actor with courses in scope has 7 daily buckets for
\* 7d, 30 daily buckets for 30d and exactly 12 weekly buckets for 90d and
\* all, every bucket present with its count even when it is 0.
C20_BucketsPerWindow ==
    (last.op = "TutorAnalytics" /\ last.ret.overview.total_courses > 0) =>
        /\ Len(last.ret.enrollment_trend.labels) =
              (IF last.args[2] = "7d" THEN 7
               ELSE IF last.args[2] = "30d" THEN 30 ELSE 12)
        /\ Len(last.ret.enrollment_trend.data) =
              Len(last.ret.enrollment_trend.labels)

\* the enrollments of the actor's courses, as a list
ActorRows(actor) == RowsIn(enrollments, ActorCourses(actor))

\* C21: the student distribution partitions the enrollments in scope into
\* three classes, completed, in_progress (progress_percentage > 0 and not
\* completed) and not_started: its three counts are the sizes of these
\* classes (in some order of the classes) and sum to the number of
\* enrollments in scope.
C21_DistributionPartition ==
    (last.op = "TutorAnalytics" /\ ActorCourses(last.args[1]) # {}) =>
        LET rows == ActorRows(last.args[1])
            data == last.ret.student_distribution.data
            completed == Len(SelectSeq(rows, LAMBDA r : r.status = "completed"))
            in_progress ==
                Len(SelectSeq(rows, LAMBDA r : r.status # "completed"
                                               /\ r.progress_percentage > 0))
            not_started ==
                Len(SelectSeq(rows, LAMBDA r : r.status # "completed"
                                               /\ r.progress_percentage = 0))
        IN  /\ Len(data) = 3
            /\ SumOf(data) = Len(rows)
            /\ \E f \in [1..3 -> 1..3] :
                  /\ \A i, j \in 1..3 : i # j => f[i] # f[j]
                  /\ data[f[1]] = completed
                  /\ data[f[2]] = in_progress
                  /\ data[f[3]] = not_started

\* C22: every analytics read, tutor analytics and per-course enrollment
\* analytics, leaves the Enrollment rows and the LessonProgress rows with all
\* their field values as they were, whether it returns or fails.
C22_AnalyticsReadOnly ==
    [][/\ \A actor \in ReadActors, period \in Periods :
             TutorAnalytics(actor, period) =>
               enrollments' = enrollments /\ lessonProgress' = lessonProgress
       /\ \A c \in AllCourseIds :
             CourseAnalytics(c) =>
               enrollments' = enrollments /\ lessonProgress' = lessonProgress]_vars

\* a tutor read has returned over a store that holds an enrollment and a
\* lesson progress row
C22_Witness ==
    /\ last.op = "TutorAnalytics"
    /\ last.outcome = "ok"
    /\ last.ret.overview.total_enrollments > 0
    /\ lessonProgress # <<>>

\* C23: analytics over a scope without enrollments returns, and reports every
\* count, rate, average and growth metric as 0: the per-course analytics of an
\* existing course without enrollments, and the tutor analytics of an actor
\* whose courses have no enrollments.
C23_EmptyScopeIsZero ==
    /\ (/\ last.op = "CourseAnalytics"
        /\ last.args[1] \in CourseIds
        /\ EnrollmentsIn(enrollments, {last.args[1]}) = {}) =>
          /\ last.outcome = "ok"
          /\ last.ret.total_enrollments = 0
          /\ last.ret.active_enrollments = 0
          /\ last.ret.completed_enrollments = 0
          /\ last.ret.dropped_enrollments = 0
          /\ last.ret.completion_rate = 0
          /\ last.ret.average_progress = 0
          /\ last.ret.average_completion_time_days = <<0>>
          /\ last.ret.enrollment_trends.current_month_enrollments = 0
          /\ last.ret.enrollment_trends.previous_month_enrollments = 0
          /\ last.ret.enrollment_trends.growth_percentage.num = 0
    /\ (/\ last.op = "TutorAnalytics"
        /\ ActorCourses(last.args[1]) # {}
        /\ ActorRows(last.args[1]) = <<>>) =>
          /\ last.outcome = "ok"
          /\ last.ret.overview.total_students = 0
          /\ last.ret.overview.total_enrollments = 0
          /\ last.ret.overview.average_completion_rate = 0
          /\ last.ret.overview.active_students = 0
          /\ last.ret.overview.course_growth = 0
          /\ last.ret.overview.enrollment_growth = 0

\* position at which a value is first seen in a sequence
FirstAt(seq, v) == CHOOSE i \in DOMAIN seq : seq[i] = v /\ \A j \in 1..(i - 1) : seq[j] # v

\* C24: TopCourses returns at most 5 courses in non-increasing order of
\* enrollment count, TopStudents at most 5 students in non-increasing
\* lexicographic order of (course count, completion rate); entries with equal
\* keys appear in the order in which they were first seen in the enrollment
\* list; every returned count is the number of enrollments of that course or
\* student in the list.
C24_TopListsRanked ==
    /\ last.op = "TopCourses" =>
          LET rows == enrollments
              top == last.ret
              seen == [i \in DOMAIN rows |-> rows[i].course_id]
          IN  /\ Len(top) <= 5
              /\ \A i \in DOMAIN top :
                    top[i].enrollments
                      = Len(SelectSeq(rows, LAMBDA r : r.course_id = top[i].id))
              /\ \A i, j \in DOMAIN top : i < j =>
                    /\ top[i].enrollments >= top[j].enrollments
                    /\ (top[i].enrollments = top[j].enrollments
                          => FirstAt(seen, top[i].id) < FirstAt(seen, top[j].id))
    /\ last.op = "TopStudents" =>
          LET rows == enrollments
              top == last.ret
              seen == [i \in DOMAIN rows |-> rows[i].student_id]
          IN  /\ Len(top) <= 5
              /\ \A i \in DOMAIN top :
                    top[i].courses_enrolled
                      = Len(SelectSeq(rows, LAMBDA r : r.student_id = top[i].id))
              /\ \A i, j \in DOMAIN top : i < j =>
                    /\ ~KeyGreater(<<top[j].courses_enrolled, top[j].completion_rate>>,
                                   <<top[i].courses_enrolled, top[i].completion_rate>>)
                    /\ (/\ top[i].courses_enrolled = top[j].courses_enrolled
                        /\ top[i].completion_rate = top[j].completion_rate)
                          => FirstAt(seen, top[i].id) < FirstAt(seen, top[j].id)

\* a ranking of more than 5 students has been cut to 5, with two students of
\* equal key and two of different course counts among them
C24_Witness ==
    /\ last.op = "TopStudents"
    /\ Cardinality({enrollments[i].student_id : i \in DOMAIN enrollments}) > 5
    /\ Len(last.ret) = 5
    /\ \E i, j \in DOMAIN last.ret :
          /\ i # j
          /\ last.ret[i].courses_enrolled = last.ret[j].courses_enrolled
          /\ last.ret[i].completion_rate = last.ret[j].completion_rate
    /\ \E i, j \in DOMAIN last.ret :
          last.ret[i].courses_enrolled # last.ret[j].courses_enrolled

\* C25: under any interleaving of concurrent MarkLessonProgress calls for one
\* (enrollment_id, lesson_id), at most one LessonProgress row of the pair
\* exists, and no later MarkLessonProgress call for the pair fails.
C25_AtMostOneProgressRow ==
    /\ \A e \in Ids(enrollments), l \in 1..MaxLessons :
          Cardinality(ProgressRowsOf(lessonProgress, e, l)) <= 1
    /\ last.op = "MarkLessonProgress" => last.outcome = "ok"

\* C26: once a committed LessonProgress row has completed_at set, no step of
\* any MarkLessonProgress call changes it, under any interleaving of
\* concurrent calls for the row.
C26_CompletedAtWrittenOnce ==
    [][\A j \in Ids(lessonProgress) :
         lessonProgress[j].completed_at # NULL
           => lessonProgress'[j].completed_at = lessonProgress[j].completed_at]_vars

C28_StatusInDomain ==
    \A i \in Ids(enrollments) :
        enrollments[i].status \in {"active", "completed", "dropped", "suspended"}

\* C29: for a fixed store state and actor, the active-students count of the
\* overview does not depend on the requested window: the 7d, 30d, 90d and all
\* requests report the same active_students value.
C29_ActiveStudentsWindowFree ==
    (last.op = "TutorAnalytics" /\ last.outcome = "ok") =>
        \A period \in Periods :
            TutorAnalyticsResponse(enrollments, last.args[1], period, now,
                                   courseCreated).overview.active_students
              = last.ret.overview.active_students

\* C30: a BulkEnroll batch that names one existing student, not yet enrolled
\* in the course, at two positions reports the first occurrence as success and
\* the later one as failed (already enrolled), and leaves exactly one
\* enrollment of the (course, student) pair.
C30_BulkDuplicateInBatch ==
    [][\A c \in CourseIds, items \in BulkItems :
         (/\ BulkEnroll(c, items)
          /\ Len(items) = 2
          /\ items[1] = items[2]
          /\ items[1] \in UserIds
          /\ EnrollmentsOf(enrollments, c, items[1]) = {})
         => /\ last'.outcome = "ok"
            /\ last'.ret.results[1].success
            /\ ~last'.ret.results[2].success
            /\ last'.ret.results[2].error_message
                 = "Student is already enrolled in this course"
            /\ Cardinality(EnrollmentsOf(enrollments', c, items[1])) = 1]_vars

====
